---- MODULE Spec2Model ----
(***************************************************************************)
(* Model of package fingerprint (src/fingerprint/fingerprint.go).          *)
(*                                                                         *)
(* Units.  Frequencies are integers in hundredths of a hertz (466.16 Hz is *)
(* 46616), powers are integers.  Every float64 expression of the source    *)
(* that is converted with int(...) is modelled by the exact rational value *)
(* it has on these grids; the conversions themselves truncate toward zero  *)
(* as Go's do (GoInt), and % is Go's truncated remainder (GoRem).          *)
(***************************************************************************)
EXTENDS Integers, Sequences, FiniteSets, TLC

\* ------------------------------------------------------------ constants
REQUIRED_CANDIDATES == 4
LOWER_FREQ_CUTOFF == 0
LOWER_POWER_CUTOFF == 100
MAX_NOTE == 12
A_NOTE == 0

\* ------------------------------------------------------------ Go arithmetic
\* int(a / b) for b > 0: Go's float-to-int conversion truncates toward zero.
GoInt(a, b) == IF a >= 0 THEN a \div b ELSE -((-a) \div b)

\* a % b in Go: the remainder has the sign of the dividend.
GoRem(a, b) == a - b * GoInt(a, b)

\* ------------------------------------------------------------ pitch classifier
\* 440 Hz and the octave [3520 Hz, 7040 Hz) it is compared in, in 1/100 Hz.
A440 == 44000
TopOctaveLow == 352000
TopOctaveShift == 3

\* ceil(352000 * 2^(r/24)), r = 0..23: the frequencies (1/100 Hz) at which
\* ln(f/440)/LOGNA passes a multiple of one half within the top octave.
\* Every entry but the first is irrational before rounding up, so for an
\* integer g:  g >= TopOctave[r+1]  <=>  g >= 352000 * 2^(r/24).
TopOctave ==
  << 352000, 362315, 372932, 383859, 395107, 406685, 418601, 430867,
     443493, 456488, 469864, 483632, 497804, 512390, 527405, 542859,
     558766, 575139, 591992, 609338, 627193, 645571, 664488, 683959 >>

\* floor(2 * ln(freq/440)/LOGNA) for 0 < freq < 704000: twice the semitone
\* distance from 440 Hz, rounded down.  Doubling freq adds 24 half steps.
RECURSIVE HalfStepsFloor(_)
HalfStepsFloor(freq) ==
  IF freq < TopOctaveLow THEN HalfStepsFloor(2 * freq) - 24
  ELSE 24 * TopOctaveShift + Cardinality({ i \in 1..24 : TopOctave[i] <= freq }) - 1

\* Whether freq is 440 Hz times a power of two (the only rational frequencies
\* whose semitone distance is rational).
RECURSIVE WholeOctave(_)
WholeOctave(freq) ==
  IF freq < TopOctaveLow THEN WholeOctave(2 * freq) ELSE freq = TopOctaveLow

\* noteSteps(freq) = math.Log(freq/440.0)/LOGNA, in fixed point: twice the
\* value, truncated toward zero.  int(s + 0.5) is GoInt(2s + 1, 2), and
\* truncating 2s first does not change it.
noteSteps(freq) ==
  LET fl == HalfStepsFloor(freq)
  IN  IF fl >= 0 \/ WholeOctave(freq) THEN fl ELSE fl + 1

\* freqNote.  For freq <= 0 the logarithm is -Inf or NaN and int(...) of it
\* is implementation-dependent: undef stands for that integer.
freqNote(freq, undef) ==
  LET x == IF freq > 0 THEN GoInt(noteSteps(freq) + 1, 2) ELSE undef
      n == GoRem(x, MAX_NOTE)
  IN  IF n < 0 THEN n + MAX_NOTE ELSE n

\* ------------------------------------------------------------ quantizer
\* fuzzyFreq(f) = float64(int(f/10 + 0.5) * 10), in 1/100 Hz.
fuzzyFreq(f) == GoInt(f + 500, 1000) * 1000

\* ------------------------------------------------------------ transcriber
Nil == << >>

EmptyChroma == [Note |-> 0, Freq |-> 0, Strength |-> 0]

\* The loop of transcribe from sample i on: bin n is kept at index n + 1.
RECURSIVE transcribeLoop(_, _, _, _, _, _)
transcribeLoop(f, p, i, t, chromaCount, undef) ==
  IF i > Len(f) THEN [t |-> t, chromaCount |-> chromaCount]
  ELSE LET v == f[i]
           n == freqNote(v, undef)
       IN  IF /\ p[i] > t[n + 1].Strength
              /\ p[i] > LOWER_POWER_CUTOFF /\ v > LOWER_FREQ_CUTOFF
           THEN transcribeLoop(f, p, i + 1,
                  [t EXCEPT ![n + 1] =
                     [Note |-> n, Freq |-> fuzzyFreq(v), Strength |-> p[i]]],
                  chromaCount + 1, undef)
           ELSE transcribeLoop(f, p, i + 1, t, chromaCount, undef)

\* transcribe with one slip: "floor" admits a power equal to the floor, "last"
\* replaces a bin on equal power, "table" is the unchanged loop.
RECURSIVE slipLoop(_, _, _, _, _, _, _)
slipLoop(f, p, i, t, chromaCount, undef, slip) ==
  IF i > Len(f) THEN [t |-> t, chromaCount |-> chromaCount]
  ELSE LET v == f[i]
           n == freqNote(v, undef)
           stronger == IF slip = "last" THEN p[i] >= t[n + 1].Strength
                       ELSE p[i] > t[n + 1].Strength
           loud == IF slip = "floor" THEN p[i] >= LOWER_POWER_CUTOFF
                   ELSE p[i] > LOWER_POWER_CUTOFF
       IN  IF stronger /\ loud /\ v > LOWER_FREQ_CUTOFF
           THEN slipLoop(f, p, i + 1,
                  [t EXCEPT ![n + 1] =
                     [Note |-> n, Freq |-> fuzzyFreq(v), Strength |-> p[i]]],
                  chromaCount + 1, undef, slip)
           ELSE slipLoop(f, p, i + 1, t, chromaCount, undef, slip)

slipTranscribe(f, p, undef, slip) ==
  LET r == slipLoop(f, p, 1, [n \in 1..MAX_NOTE |-> EmptyChroma], 0, undef, slip)
  IN  IF r.chromaCount = 0 /\ slip # "table" THEN Nil ELSE r.t

\* A power equal to the floor is admitted.
transcribeAtFloor(f, p, undef) == slipTranscribe(f, p, undef, "floor")

\* A sample of equal power replaces the bin: the last seen wins.
transcribeLastWins(f, p, undef) == slipTranscribe(f, p, undef, "last")

\* The table is returned even when no bin was committed.
transcribeAlwaysTable(f, p, undef) == slipTranscribe(f, p, undef, "table")

transcribe(f, p, undef) ==
  LET r == transcribeLoop(f, p, 1, [n \in 1..MAX_NOTE |-> EmptyChroma], 0, undef)
  IN  IF r.chromaCount = 0 THEN Nil ELSE r.t

\* ------------------------------------------------------------ power key
RECURSIVE maxPxxLoop(_, _, _)
maxPxxLoop(t, i, maxPxx) ==
  IF i > Len(t) THEN maxPxx
  ELSE maxPxxLoop(t, i + 1, IF t[i].Strength > maxPxx THEN t[i].Strength ELSE maxPxx)

\* byte(x): the low eight bits.
GoByte(x) == x % 256

\* audioKey without the + 0.5: the scaled strength is cut, not rounded.
audioKeyTruncating(t, undef) ==
  IF t = Nil THEN Nil
  ELSE LET maxPxx == maxPxxLoop(t, 1, 0)
       IN  [i \in 1..Len(t) |->
              GoByte(IF maxPxx = 0 THEN undef
                     ELSE GoInt(8 * t[i].Strength, maxPxx))]

\* audioKey with optPowerKey = true.  int(s/maxPxx*8.0 + 0.5) is
\* GoInt(16 s + maxPxx, 2 maxPxx); with maxPxx = 0 the quotient is NaN and the
\* conversion implementation-dependent (undef).
audioKey(t, undef) ==
  IF t = Nil THEN Nil
  ELSE LET maxPxx == maxPxxLoop(t, 1, 0)
       IN  [i \in 1..Len(t) |->
              GoByte(IF maxPxx = 0 THEN undef
                     ELSE GoInt(16 * t[i].Strength + maxPxx, 2 * maxPxx))]

\* ------------------------------------------------------------ sort.Sort
RECURSIVE ReverseSeq(_)
ReverseSeq(s) == IF s = << >> THEN << >> ELSE Append(ReverseSeq(Tail(s)), Head(s))

\* One pass of the inner loop of insertion sort under sort.Reverse(By<by>):
\* x moves left while Less(j, j-1), that is while data[j-1].by < x.by.
RECURSIVE insertLeft(_, _, _)
insertLeft(sorted, x, by) ==
  IF sorted # << >> /\ sorted[Len(sorted)][by] < x[by]
  THEN Append(insertLeft(SubSeq(sorted, 1, Len(sorted) - 1), x, by),
              sorted[Len(sorted)])
  ELSE Append(sorted, x)

RECURSIVE insertionSort(_, _, _)
insertionSort(data, i, by) ==
  IF i > Len(data) THEN data
  ELSE insertionSort(
         insertLeft(SubSeq(data, 1, i - 1), data[i], by)
           \o SubSeq(data, i + 1, Len(data)),
         i + 1, by)

\* sort.Sort(sort.Reverse(By<by>(data))).  sort.Sort does not promise the
\* order of equal elements: ties says whether they keep their order ("keep",
\* as the insertion sort the library runs on short slices leaves them) or
\* come out reversed ("flip").
sortReverse(data, by, ties) ==
  IF ties = "keep" THEN insertionSort(data, 2, by)
  ELSE insertionSort(ReverseSeq(data), 2, by)

\* ------------------------------------------------------------ candidate selectors
RECURSIVE admissibleFrom(_, _, _)
admissibleFrom(f, p, i) ==
  IF i > Len(p) THEN << >>
  ELSE IF p[i] > LOWER_POWER_CUTOFF /\ f[i] > LOWER_FREQ_CUTOFF
       THEN << [Freq |-> fuzzyFreq(f[i]), Pxx |-> p[i]] >> \o admissibleFrom(f, p, i + 1)
       ELSE admissibleFrom(f, p, i + 1)

\* getTopCandidates without the second sort: the result stays in power order.
getTopCandidatesByPower(f, p, ties) ==
  LET cands == sortReverse(admissibleFrom(f, p, 1), "Pxx", ties)
  IN  IF Len(cands) < REQUIRED_CANDIDATES THEN Nil
      ELSE SubSeq(cands, 1, REQUIRED_CANDIDATES)

\* getTopCandidates with sort.Reverse left out of the first sort: the weakest
\* come first.
getTopCandidatesWeakest(f, p, ties) ==
  LET cands == ReverseSeq(sortReverse(admissibleFrom(f, p, 1), "Pxx", ties))
  IN  IF Len(cands) < REQUIRED_CANDIDATES THEN Nil
      ELSE sortReverse(SubSeq(cands, 1, REQUIRED_CANDIDATES), "Freq", ties)

getTopCandidates(f, p, ties) ==
  LET cands == sortReverse(admissibleFrom(f, p, 1), "Pxx", ties)
  IN  IF Len(cands) < REQUIRED_CANDIDATES THEN Nil
      ELSE sortReverse(SubSeq(cands, 1, REQUIRED_CANDIDATES), "Freq", ties)

\* uLimit := 11025.0 / 2.0, in 1/100 Hz.
uLimit == 551250
BandCount == 4

\* freqBand(f) = int(a / b * 4 + 0.5) = int((2*4*a + b) / (2*b)).
freqBand(f) ==
  LET a == f - LOWER_FREQ_CUTOFF
      b == uLimit - LOWER_FREQ_CUTOFF
  IN  GoInt(2 * BandCount * a + b, 2 * b)

\* A read of a Go map: the zero value for a missing key.
MapGet(m, k) == IF k \in DOMAIN m THEN m[k] ELSE 0
MapPut(m, k, v) == [x \in DOMAIN m \cup {k} |-> IF x = k THEN v ELSE m[x]]

EmptyMap == [x \in {} |-> 0]

\* The first loop of getBandedCandidates from sample i on.
RECURSIVE highLoop(_, _, _, _, _)
highLoop(f, p, i, highScores, highPoints) ==
  IF i > Len(p) THEN [highScores |-> highScores, highPoints |-> highPoints]
  ELSE IF /\ p[i] > LOWER_POWER_CUTOFF /\ f[i] > LOWER_FREQ_CUTOFF
          /\ p[i] > MapGet(highScores, freqBand(f[i]))
       THEN highLoop(f, p, i + 1, MapPut(highScores, freqBand(f[i]), p[i]),
                     MapPut(highPoints, freqBand(f[i]), f[i]))
       ELSE highLoop(f, p, i + 1, highScores, highPoints)

\* The sequences that hold each element of S once.
RECURSIVE Orders(_)
Orders(S) ==
  IF S = {} THEN { << >> }
  ELSE UNION { { << x >> \o o : o \in Orders(S \ {x}) } : x \in S }

\* The orders in which a range loop may visit the keys of highPoints.
MapOrders(f, p) == Orders(DOMAIN highLoop(f, p, 1, EmptyMap, EmptyMap).highPoints)

\* getBandedCandidates without the final sort: the result stays in map order.
getBandedCandidatesUnsorted(f, p, order, ties) ==
  LET m == highLoop(f, p, 1, EmptyMap, EmptyMap)
  IN  [i \in 1..Len(order) |->
         [Freq |-> fuzzyFreq(m.highPoints[order[i]]),
          Pxx |-> m.highScores[order[i]]]]

\* getBandedCandidates when the range loop visits the bands in order `order`.
getBandedCandidates(f, p, order, ties) ==
  LET m == highLoop(f, p, 1, EmptyMap, EmptyMap)
      cands == [i \in 1..Len(order) |->
                  [Freq |-> fuzzyFreq(m.highPoints[order[i]]),
                   Pxx |-> m.highScores[order[i]]]]
  IN  sortReverse(cands, "Freq", ties)

\* ------------------------------------------------------------ hash key
RECURSIVE Digits(_)
Digits(n) == IF n < 10 THEN 1 ELSE 1 + Digits(n \div 10)

RECURSIVE Pow10(_)
Pow10(k) == IF k = 0 THEN 1 ELSE 10 * Pow10(k - 1)

\* fmt.Sprintf("%e", v.Freq) of a candidate frequency (a whole number of
\* hertz below 10^7): d.dddddde+XX as the seven digits and the exponent.
FormatE(fz) ==
  LET hz == fz \div 100
  IN  IF hz = 0 THEN [digits |-> 0, exp |-> 0]
      ELSE [digits |-> hz * Pow10(7 - Digits(hz)), exp |-> Digits(hz) - 1]

\* hash.Sum(nil) after writing the strings of data to sha1.New(): the digest
\* stands for exactly the bytes written (SHA-1 taken to be collision-free).
Sha1Sum(data) == << data >>

hashKey(cands) == Sha1Sum([i \in 1..Len(cands) |-> FormatE(cands[i].Freq)])

\* ------------------------------------------------------------ frames
\* The bins the spectral estimator may report for a frame, as (frequency in
\* 1/100 Hz, power), one table for each pipeline of New.
TranscribeBins ==
  << [Freq |-> 22000,  Pxx |-> 500],    \* 220 Hz
     [Freq |-> 11000,  Pxx |-> 500],    \* an octave below, the same power
     [Freq |-> 46616,  Pxx |-> 101],    \* 466.16 Hz, just above the power floor
     [Freq |-> 44000,  Pxx |-> 1616],   \* 440 Hz, sixteen times the weakest
     [Freq |-> 0,      Pxx |-> 900],    \* the DC bin, strong
     [Freq |-> 30000,  Pxx |-> 100],    \* at the power floor
     [Freq |-> 41530,  Pxx |-> 50] >>   \* below the power floor

TopBins ==
  << [Freq |-> 68800,  Pxx |-> 202],
     [Freq |-> 69000,  Pxx |-> 202],    \* the same quantized frequency and power
     [Freq |-> 300000, Pxx |-> 202],
     [Freq |-> 400000, Pxx |-> 1616],
     [Freq |-> 500000, Pxx |-> 404],
     [Freq |-> 44000,  Pxx |-> 500],
     [Freq |-> 0,      Pxx |-> 900],    \* the DC bin, strong
     [Freq |-> 22000,  Pxx |-> 100] >>  \* at the power floor

BandBins ==
  << [Freq |-> 68800,  Pxx |-> 202],    \* band 0, quantized 690
     [Freq |-> 69000,  Pxx |-> 101],    \* band 1, quantized 690
     [Freq |-> 300000, Pxx |-> 202],    \* band 2
     [Freq |-> 400000, Pxx |-> 1616],   \* band 3
     [Freq |-> 500000, Pxx |-> 404],    \* band 4
     [Freq |-> 88000,  Pxx |-> 500] >>  \* band 1 again, stronger

Bins(method) ==
  CASE method = "transcribe" -> TranscribeBins
    [] method = "topfreqs" -> TopBins
    [] method = "freqbands" -> BandBins

MaxLen == 5

\* A frame holds each bin at most once, in any order.
Frames(table) ==
  UNION { { o \in [1..n -> 1..Len(table)] : \A i, j \in 1..n : i # j => o[i] # o[j] }
          : n \in 0..MaxLen }

Timestamps == {3, 7}
Methods == {"transcribe", "topfreqs", "freqbands"}
TieOrders == {"keep", "flip"}

\* What int(x) may give for a float x that is not finite, modulo what the
\* callers keep of it.
UndefInts == {-8, 0, 7}

\* ------------------------------------------------------------ state
VARIABLES
  freqs, Pxx,      \* the estimator's output for the frame (New, line 343)
  timestamp,       \* sampleBlock.Timestamp
  optMethod,       \* New's pipeline selector (line 353)
  sortTies,        \* how this build's sort.Sort orders equal elements
  calls,           \* how often New has run on the frame: "none", "once", "twice"
  transcription,   \* the last call's transcription (Nil outside that pipeline)
  candidates,      \* the last call's candidates (Nil outside those pipelines)
  fp,              \* the last call's result: Nil or << Fingerprint >>
  fpFirst,         \* the first call's result
  tone, toneNote   \* freqNote's argument and result

vars == << freqs, Pxx, timestamp, optMethod, sortTies, calls,
           transcription, candidates, fp, fpFirst, tone, toneNote >>

Fingerprint(key, ts, cands, t) ==
  [Key |-> key, Timestamp |-> ts, Candidates |-> cands, Transcription |-> t]

Init ==
  /\ optMethod \in Methods
  /\ \E fr \in Frames(Bins(optMethod)) :
       /\ freqs = [i \in DOMAIN fr |-> Bins(optMethod)[fr[i]].Freq]
       /\ Pxx = [i \in DOMAIN fr |-> Bins(optMethod)[fr[i]].Pxx]
  /\ timestamp \in Timestamps
  /\ sortTies \in IF optMethod = "topfreqs" THEN TieOrders ELSE {"keep"}
  /\ calls = "none"
  /\ transcription = Nil
  /\ candidates = Nil
  /\ fp = Nil
  /\ fpFirst = Nil
  /\ tone = A440
  /\ toneNote = A_NOTE

\* case "transcribe" of New, from the transcription on
newTranscribe(t, ts, undef) ==
  LET key == audioKey(t, undef)
  IN  IF key = Nil THEN Nil ELSE << Fingerprint(key, ts, Nil, t) >>

\* case "topfreqs" of New, from the candidates on
newTopFreqs(cands, ts) ==
  IF Len(cands) < REQUIRED_CANDIDATES THEN Nil
  ELSE << Fingerprint(hashKey(cands), ts, cands, Nil) >>

\* case "freqbands" without the check of the number of candidates.
newFreqBandsAnyCount(cands, ts) ==
  << Fingerprint(hashKey(cands), ts, cands, Nil) >>

\* case "freqbands" of New, from the candidates on
newFreqBands(cands, ts) ==
  IF Len(cands) < REQUIRED_CANDIDATES THEN Nil
  ELSE << Fingerprint(hashKey(cands), ts, cands, Nil) >>

Returned(result) ==
  /\ fp' = result
  /\ fpFirst' = IF calls = "none" THEN result ELSE fpFirst
  /\ calls' = IF calls = "none" THEN "once" ELSE "twice"
  /\ UNCHANGED << freqs, Pxx, timestamp, optMethod, sortTies, tone, toneNote >>

NewTranscribe ==
  /\ calls # "twice"
  /\ optMethod = "transcribe"
  /\ \E undef \in UndefInts :
       /\ transcription' = transcribe(freqs, Pxx, undef)
       /\ candidates' = Nil
       /\ Returned(newTranscribe(transcription', timestamp, undef))

NewTopFreqs ==
  /\ calls # "twice"
  /\ optMethod = "topfreqs"
  /\ transcription' = Nil
  /\ candidates' = getTopCandidates(freqs, Pxx, sortTies)
  /\ Returned(newTopFreqs(candidates', timestamp))

NewFreqBands ==
  /\ calls # "twice"
  /\ optMethod = "freqbands"
  /\ \E c \in { getBandedCandidates(freqs, Pxx, order, sortTies) :
                   order \in MapOrders(freqs, Pxx) } :
       /\ transcription' = Nil
       /\ candidates' = c
       /\ Returned(newFreqBands(candidates', timestamp))

Next == NewTranscribe \/ NewTopFreqs \/ NewFreqBands

Spec == Init /\ [][Next]_vars

\* ------------------------------------------------------------ classifier alone
MaxToneHz == 2000

\* Whole hertz from 20 Hz up, and the 466.16 Hz of the specification's example.
Tones == { 100 * hz : hz \in 20..MaxToneHz } \cup { 46616 }

InitClassify ==
  /\ freqs = << >> /\ Pxx = << >>
  /\ timestamp = 0
  /\ optMethod = "transcribe"
  /\ sortTies = "keep"
  /\ calls = "none"
  /\ transcription = Nil /\ candidates = Nil /\ fp = Nil /\ fpFirst = Nil
  /\ tone \in Tones
  /\ toneNote = -1

Classify ==
  /\ toneNote = -1
  /\ toneNote' = freqNote(tone, 0)
  /\ UNCHANGED << freqs, Pxx, timestamp, optMethod, sortTies, calls,
                  transcription, candidates, fp, fpFirst, tone >>

NextClassify == Classify

SpecClassify == InitClassify /\ [][NextClassify]_vars

\* ------------------------------------------------------------ properties
\* The samples of the frame that pass both admissibility floors.
Admissible ==
  { i \in DOMAIN Pxx : Pxx[i] > LOWER_POWER_CUTOFF /\ freqs[i] > LOWER_FREQ_CUTOFF }

Called(method) == calls # "none" /\ optMethod = method

\* The semitone distance from 440 Hz rounded to the nearest integer, reduced
\* by the mathematical modulo.
NearestPitchClass(freq) == ((HalfStepsFloor(freq) + 1) \div 2) % MAX_NOTE

\* C1: for every positive frequency freqNote returns the nearest semitone
\* distance from 440 Hz modulo 12, in 0..11, so that 440 Hz, 220 Hz and every
\* other octave of A are class A and 466.16 Hz is A#.
C1_NearestClass ==
  toneNote # -1 =>
    /\ toneNote \in 0..(MAX_NOTE - 1)
    /\ toneNote = NearestPitchClass(tone)

\* The bands that hold an admissible sample.
OccupiedBands == { freqBand(freqs[i]) : i \in Admissible }

\* C2: getBandedCandidates returns at most 4 candidates, and no more than one
\* for each band that holds an admissible sample.
C2_AtMostFourBands ==
  Called("freqbands") =>
    /\ Len(candidates) <= BandCount
    /\ Len(candidates) <= Cardinality(OccupiedBands)

\* C3 as claimed: New returns nil exactly when the transcription is absent or
\* the top-N selection is absent, so never in the banded pipeline; a
\* fingerprint carries the frame's timestamp.
C3_BandedAlwaysAssembled ==
  calls # "none" =>
    /\ fp = Nil <=>
         \/ optMethod = "transcribe" /\ transcription = Nil
         \/ optMethod = "topfreqs" /\ candidates = Nil
    /\ fp # Nil => fp[1].Timestamp = timestamp

\* C3 as amended: New returns nil exactly when the transcription is absent,
\* the top-N selection is absent, or the banded selection holds fewer than
\* REQUIRED_CANDIDATES candidates; a fingerprint carries the frame's timestamp.
C3_Assembler ==
  calls # "none" =>
    /\ fp = Nil <=>
         \/ optMethod = "transcribe" /\ transcription = Nil
         \/ optMethod = "topfreqs" /\ candidates = Nil
         \/ optMethod = "freqbands" /\ Len(candidates) < REQUIRED_CANDIDATES
    /\ fp # Nil => fp[1].Timestamp = timestamp

\* The banded pipeline found one to three candidates and New returned nil.
C3_Witness ==
  /\ Called("freqbands")
  /\ Len(candidates) \in 1..(REQUIRED_CANDIDATES - 1)
  /\ fp = Nil

\* C4: getTopCandidates returns nil when fewer than REQUIRED_CANDIDATES samples
\* are admissible, and otherwise exactly REQUIRED_CANDIDATES candidates in
\* order of non-increasing quantized frequency.
C4_TopCount ==
  Called("topfreqs") =>
    IF Cardinality(Admissible) < REQUIRED_CANDIDATES THEN candidates = Nil
    ELSE /\ Len(candidates) = REQUIRED_CANDIDATES
         /\ \A i \in 1..(REQUIRED_CANDIDATES - 1) :
              candidates[i].Freq >= candidates[i + 1].Freq

\* More samples are admissible than are returned, and the four returned do
\* not all share a frequency.
C4_Witness ==
  /\ Called("topfreqs")
  /\ Cardinality(Admissible) > REQUIRED_CANDIDATES
  /\ Len(candidates) = REQUIRED_CANDIDATES
  /\ candidates[1].Freq > candidates[REQUIRED_CANDIDATES].Freq

\* C5: when every sample's power is at or below the power floor, transcribe
\* returns nil and New, on the transcription pipeline, returns nil.
C5_SubThreshold ==
  (Called("transcribe") /\ \A i \in DOMAIN Pxx : Pxx[i] <= LOWER_POWER_CUTOFF) =>
    transcription = Nil /\ fp = Nil

\* A frame of two samples, one of them exactly at the floor, gave nil.
C5_Witness ==
  /\ Called("transcribe")
  /\ Len(Pxx) >= 2
  /\ \A i \in DOMAIN Pxx : Pxx[i] <= LOWER_POWER_CUTOFF
  /\ \E i \in DOMAIN Pxx : Pxx[i] = LOWER_POWER_CUTOFF
  /\ fp = Nil

\* The greatest strength of the last transcription.
MaxStrength ==
  CHOOSE m \in { transcription[i].Strength : i \in 1..MAX_NOTE } :
    \A i \in 1..MAX_NOTE : transcription[i].Strength <= m

\* C6: the key of a transcription has 12 bytes; byte i is the integer nearest
\* to strength[i] / max_strength * 8 (halves rounded up), lies in 0..8, and is
\* 8 for every bin of maximal strength.
C6_PowerKey ==
  (Called("transcribe") /\ transcription # Nil) =>
    /\ fp # Nil
    /\ Len(fp[1].Key) = MAX_NOTE
    /\ \A i \in 1..MAX_NOTE :
         LET k == fp[1].Key[i]
             str == transcription[i].Strength
         IN  /\ k \in 0..8
             /\ 2 * k * MaxStrength - MaxStrength <= 16 * str
             /\ 16 * str < 2 * k * MaxStrength + MaxStrength
             /\ str = MaxStrength => k = 8

\* A key with a byte rounded up from exactly one half, beside the byte 8.
C6_Witness ==
  /\ Called("transcribe")
  /\ fp # Nil
  /\ \E i \in 1..MAX_NOTE :
       /\ 16 * transcription[i].Strength = MaxStrength
       /\ fp[1].Key[i] = 1

\* Two results of New are the same outcome: both nil, or both fingerprints
\* with the same key bytes and the same timestamp.
SameOutcome(a, b) ==
  \/ a = Nil /\ b = Nil
  \/ /\ a # Nil /\ b # Nil
     /\ a[1].Key = b[1].Key
     /\ a[1].Timestamp = b[1].Timestamp

\* C7: calling New again on the same frame with the same configuration gives
\* the same outcome as the first call, in each pipeline.
C7_Idempotent == calls = "twice" => SameOutcome(fpFirst, fp)

\* In the banded pipeline two calls visited the map in orders that left the
\* candidates in different orders, and both returned a fingerprint.
C7_Witness ==
  /\ calls = "twice"
  /\ optMethod = "freqbands"
  /\ fp # Nil /\ fpFirst # Nil
  /\ fp[1].Candidates # fpFirst[1].Candidates

\* The admissible samples that freqNote puts in pitch class n.
OfClass(n) == { i \in Admissible : freqNote(freqs[i], 0) = n }

\* The first of the strongest samples among those of S.
FirstStrongest(S) ==
  CHOOSE i \in S :
    /\ \A j \in S : Pxx[j] <= Pxx[i]
    /\ \A j \in S : Pxx[j] = Pxx[i] => i <= j

C9_NoZeroMaximum ==
  (Called("transcribe") /\ transcription # Nil) =>
    /\ \E i \in 1..MAX_NOTE : transcription[i].Strength > LOWER_POWER_CUTOFF
    /\ maxPxxLoop(transcription, 1, 0) > 0

\* A table with a single committed bin, the frame holding inadmissible
\* samples as well.
C9_Witness ==
  /\ Called("transcribe") /\ fp # Nil
  /\ Cardinality({ i \in 1..MAX_NOTE : transcription[i].Strength > 0 }) = 1
  /\ Cardinality(Admissible) < Len(Pxx)

\* The candidate an admissible sample gives.
CandidateOf(i) == [Freq |-> fuzzyFreq(freqs[i]), Pxx |-> Pxx[i]]

\* How often candidate c is returned, and how many admissible samples give it.
ReturnedCount(c) == Cardinality({ k \in DOMAIN candidates : candidates[k] = c })
OfferedCount(c) == Cardinality({ i \in Admissible : CandidateOf(i) = c })

\* C10: the candidates getTopCandidates returns are those of distinct
\* admissible samples, each with its quantized frequency and its own power,
\* and no admissible sample left out is stronger than a returned one.
C10_Strongest ==
  (Called("topfreqs") /\ candidates # Nil) =>
    /\ \A k \in DOMAIN candidates :
         /\ OfferedCount(candidates[k]) >= 1
         /\ ReturnedCount(candidates[k]) <= OfferedCount(candidates[k])
    /\ \A i \in Admissible :
         ReturnedCount(CandidateOf(i)) < OfferedCount(CandidateOf(i)) =>
           \A k \in DOMAIN candidates : Pxx[i] <= candidates[k].Pxx

\* Five samples were admissible and the one left out is strictly weaker than
\* some returned candidate and as strong as another.
C10_Witness ==
  /\ Called("topfreqs") /\ candidates # Nil
  /\ \E i \in Admissible :
       /\ ReturnedCount(CandidateOf(i)) < OfferedCount(CandidateOf(i))
       /\ \E k \in DOMAIN candidates : Pxx[i] < candidates[k].Pxx
       /\ \E k \in DOMAIN candidates : Pxx[i] = candidates[k].Pxx

====
